---------------------------- MODULE Spec2Model ----------------------------
(***************************************************************************)
(* The TrafficJam modules (bridge, physical, dummy, loopback, vrf and the  *)
(* read-only interface collection) as a state machine.  One invocation of  *)
(* a module's run_module is a process that goes validate -> plan ->        *)
(* (existence check) -> request -> interpret; the transport calls of       *)
(* make_request are the only points where invocations interleave.          *)
(*                                                                         *)
(* Encoding of Python values:                                              *)
(*   None      is <<>>, a value v that may be None is <<v>>  (Some(v));    *)
(*   a dict    is a record; a list is a sequence;                          *)
(*   a decoded response body is [tag, items] with tag "null" (json() did   *)
(*   not decode), "list" (a collection) or "object" (any other document).  *)
(***************************************************************************)
EXTENDS Integers, Sequences, FiniteSets, TLC

VARIABLES
    pc,          \* pc[i]: where invocation i stands in run_module
    params,      \* params[i]: module.params of invocation i
    plan,        \* plan[i]: url_response, the value generate_url returned
    response,    \* response[i]: what make_request returned for the operation
    query_response, \* query_response[i]: what the guard's GET returned
    result,      \* result[i]: the dict handed to fail_json / exit_json
    calls,       \* calls[i]: the requests invocation i has put on the wire
    remote,      \* remote[url]: the entries the service recorded at a collection
    invocations  \* how many invocations have been started

vars == <<pc, params, plan, response, query_response, result, calls, remote, invocations>>

---------------------------------------------------------------------------
(* Bounds of the model. *)

\* Longest collection the service returns to the guard's GET.
MaxColl == 3
\* Invocations run one after the other in SpecSeq.
MaxInvocations == 3

---------------------------------------------------------------------------
(* Python values. *)

None == <<>>
Some(v) == <<v>>

\* bool(x) of an optional int / an optional str.
TruthyInt(o) == o # None /\ o[1] # 0
TruthyStr(o) == o # None /\ o[1] # ""

NullBody == [tag |-> "null", items |-> <<>>]
ListBody(s) == [tag |-> "list", items |-> s]
ObjectBody == [tag |-> "object", items |-> <<>>]

\* bool(body): None and the empty list are falsy.
TruthyBody(b) == b.tag = "object" \/ (b.tag = "list" /\ Len(b.items) > 0)

States == {"query", "present", "absent"}

\* The prefix every f-string of generate_url starts with (host and port are
\* module parameters; one host and the default port stand for all).
BaseUrl == "http://trafficjam:80/trafficjam/api/"


---------------------------------------------------------------------------
(* Parameter validation: scrub_params of each module, and the argument    *)
(* specification AnsibleModule enforces before run_module's own code.     *)

\* _params['config'] as a dict; only evaluated where the code has already
\* tested "config is not None" (Python raises TypeError otherwise).
Cfg(p) == p.config[1]

scrub_params_bridge(p) ==
    IF p.config # None /\ Cfg(p).name # None /\ Cfg(p).bridge_id # None
    THEN Some("parameter name is mutually exclusive with bridge_id")
    ELSE IF p.config # None /\ Cfg(p).name # None /\ Cfg(p).vlan_id # None
    THEN Some("parameter name is mutually exclusive with vlan_id")
    ELSE IF p.config # None /\ Cfg(p).interface_id # None /\ Cfg(p).vlan_id # None
    THEN Some("parameter interface_id is mutually exclusive with vlan_id")
    ELSE IF p.config # None /\ Cfg(p).interface_id # None /\ Cfg(p).subinterface_id # None
    THEN Some("parameter interface_id is mutually exclusive with subinterface_id")
    ELSE IF p.config # None /\ Cfg(p).vlan_id # None /\ Cfg(p).subinterface_id # None
    THEN Some("parameter vlan_id is mutually exclusive with subinterface_id")
    ELSE IF ~p.subinterface /\ p.state = "present"
            /\ (p.config # None /\ Cfg(p).name = None /\ Cfg(p).bridge_id = None)
    THEN Some("missing parameter(s) required: name|bridge_id")
    ELSE IF ~p.subinterface /\ p.state = "present"
            /\ (p.config # None /\ Cfg(p).name # None)
    THEN None
    ELSE IF ~p.subinterface /\ p.state = "present"
            /\ (p.config # None /\ Cfg(p).bridge_id # None)
    THEN None
    ELSE IF p.subinterface /\ p.state = "query"
            /\ (p.config = None \/ Cfg(p).bridge_id = None)
    THEN Some("missing parameter(s) required by 'subinterface': bridge_id")
    ELSE IF p.subinterface /\ p.state = "present"
    THEN IF p.config = None
         THEN Some("missing parameter(s) required by 'subinterface': bridge_id|vlan_id or bridge_id|subinterface_id")
         ELSE IF TruthyInt(Cfg(p).bridge_id) /\ TruthyInt(Cfg(p).vlan_id)
                 /\ Cfg(p).subinterface_id = None
         THEN None
         ELSE IF TruthyInt(Cfg(p).bridge_id) /\ TruthyInt(Cfg(p).subinterface_id)
                 /\ Cfg(p).vlan_id = None
         THEN None
         ELSE Some("missing parameter(s) required by 'subinterface': bridge_id|vlan_id or bridge_id|subinterface_id")
    ELSE None

scrub_params_physical(p) ==
    IF p.config # None /\ Cfg(p).subinterface_id # None /\ Cfg(p).vlan_id # None
    THEN Some("parameter subinterface_id is mutually exclusive with vlan_id")
    ELSE IF ~p.subinterface /\ p.state = "present"
            /\ (p.config # None /\ Cfg(p).physical_id = None)
    THEN Some("missing parameter(s) required: physical_id")
    ELSE IF p.subinterface /\ p.state = "query"
            /\ (p.config = None \/ Cfg(p).physical_id = None)
    THEN Some("missing parameter(s) required by 'subinterface': physical_id")
    ELSE IF p.subinterface /\ p.state = "present"
    THEN IF p.config = None
         THEN Some("missing parameter(s) required by 'subinterface': physical_id|vlan_id or physical_id|subinterface_id")
         ELSE IF TruthyInt(Cfg(p).physical_id) /\ TruthyInt(Cfg(p).vlan_id)
                 /\ Cfg(p).subinterface_id = None
         THEN None
         ELSE IF TruthyInt(Cfg(p).physical_id) /\ TruthyInt(Cfg(p).subinterface_id)
                 /\ Cfg(p).vlan_id = None
         THEN None
         ELSE Some("missing parameter(s) required by 'subinterface': physical_id|vlan_id or physical_id|subinterface_id")
    ELSE None

\* The last rule tests state == "delete", a value the argument
\* specification (choices query/present/absent) never lets through.
scrub_params_dummy(p) ==
    IF p.config # None /\ Cfg(p).name # None /\ Cfg(p).dummy_id # None
    THEN Some("parameter name is mutually exclusive with dummy_id")
    ELSE IF p.state = "present"
    THEN IF p.config # None /\ TruthyStr(Cfg(p).name)
         THEN None
         ELSE IF p.config # None /\ TruthyInt(Cfg(p).dummy_id)
         THEN None
         ELSE Some("missing parameter(s) required: name|dummy_id")
    ELSE IF p.state = "delete"
            /\ (p.config # None /\ Cfg(p).dummy_id = None)
    THEN Some("missing parameter(s) required: dummy_id")
    ELSE None

\* required_if = [state present -> config, state absent -> config], the
\* check AnsibleModule(...) makes for the modules that take a config dict.
argspec_config(p) ==
    IF p.state = "present" /\ p.config = None
    THEN Some("state is present but all of the following are missing: config")
    ELSE IF p.state = "absent" /\ p.config = None
    THEN Some("state is absent but all of the following are missing: config")
    ELSE None

\* The vrf module has no scrub_params: its rules are the constructor's
\* mutually_exclusive, required_if and required_by, checked in that order.
argspec_vrf(p) ==
    IF p.vrf_name # None /\ p.interface_id # None
    THEN Some("parameters are mutually exclusive: vrf_name|interface_id")
    ELSE IF p.vrf_table_id # None /\ p.interface_id # None
    THEN Some("parameters are mutually exclusive: vrf_table_id|interface_id")
    ELSE IF p.state = "present"
            /\ p.vrf_name = None /\ p.vrf_table_id = None /\ p.vrf_id = None
    THEN Some("state is present but any of the following are missing: vrf_name, vrf_table_id, vrf_id, vrf_table_id")
    ELSE IF p.state = "absent" /\ p.vrf_id = None
    THEN Some("state is absent but all of the following are missing: vrf_id")
    ELSE IF p.vrf_name # None /\ p.vrf_table_id = None
    THEN Some("missing parameter(s) required by 'vrf_name': vrf_table_id")
    ELSE IF p.vrf_table_id # None /\ p.vrf_name = None
    THEN Some("missing parameter(s) required by 'vrf_table_id': vrf_name")
    ELSE None

\* The constructor's check of the kind's argument specification.
argspec(p) ==
    IF p.kind = "vrf" THEN argspec_vrf(p)
    ELSE IF p.kind = "interfaces" THEN None
    ELSE argspec_config(p)

\* Mutant of scrub_params: a plain query is let by unchecked.
scrub_params_query_unchecked(p) ==
    IF p.state = "query" /\ ~p.subinterface THEN None
    ELSE IF p.kind = "bridge" THEN scrub_params_bridge(p)
    ELSE IF p.kind = "physical" THEN scrub_params_physical(p)
    ELSE IF p.kind = "dummy" THEN scrub_params_dummy(p)
    ELSE None

\* Mutant of scrub_params: the bridge subinterface rule on required
\* fields is tested before the mutual exclusions.
scrub_params_required_first(p) ==
    IF p.kind = "bridge" /\ p.subinterface /\ p.state = "present"
       /\ p.config # None /\ Cfg(p).bridge_id = None
    THEN Some("missing parameter(s) required by 'subinterface': bridge_id|vlan_id or bridge_id|subinterface_id")
    ELSE IF p.kind = "bridge" THEN scrub_params_bridge(p)
    ELSE IF p.kind = "physical" THEN scrub_params_physical(p)
    ELSE IF p.kind = "dummy" THEN scrub_params_dummy(p)
    ELSE None

\* The scrub_params of the kind's module (loopback, vrf and interfaces
\* have none).
scrub_params(p) ==
    IF p.kind = "bridge" THEN scrub_params_bridge(p)
    ELSE IF p.kind = "physical" THEN scrub_params_physical(p)
    ELSE IF p.kind = "dummy" THEN scrub_params_dummy(p)
    ELSE None

---------------------------------------------------------------------------
(* Request planning: generate_url of each module.  A plan is the dict     *)
(* {url, http_method, data}; None is the value Python returns when no     *)
(* branch of generate_url is taken.                                        *)

Plan(url, method, data) == Some([url |-> url, http_method |-> method, data |-> data])

\* f"{x}" of an int parameter.
Fmt(o) == ToString(o[1])

generate_url_bridge(p) ==
    LET bridges == BaseUrl \o "interfaces/bridges" IN
    IF p.state = "query"
    THEN IF (~p.subinterface /\ p.config = None)
            \/ (~p.subinterface /\ Cfg(p).bridge_id = None)
         THEN Plan(bridges, "get", None)
         ELSE IF ~p.subinterface /\ TruthyInt(Cfg(p).bridge_id)
         THEN Plan(bridges \o "/" \o Fmt(Cfg(p).bridge_id), "get", None)
         ELSE IF p.subinterface /\ TruthyInt(Cfg(p).bridge_id)
         THEN Plan(bridges \o "/" \o Fmt(Cfg(p).bridge_id) \o "/subinterfaces", "get", None)
         ELSE IF p.subinterface /\ TruthyInt(Cfg(p).bridge_id)
                 /\ TruthyInt(Cfg(p).subinterface_id)
         THEN Plan(bridges \o "/" \o Fmt(Cfg(p).bridge_id) \o "/subinterfaces/"
                       \o Fmt(Cfg(p).subinterface_id), "get", None)
         ELSE None
    ELSE IF p.state = "present"
    THEN IF ~p.subinterface /\ Cfg(p).name # None
         THEN Plan(bridges, "post",
                   Some([name |-> Cfg(p).name,
                         description |-> Cfg(p).description,
                         interface_id |-> Cfg(p).interface_id,
                         vrf_id |-> Cfg(p).vrf_id,
                         v4_address |-> Cfg(p).v4_address,
                         v6_address |-> Cfg(p).v6_address]))
         ELSE IF ~p.subinterface /\ Cfg(p).bridge_id # None
         THEN Plan(bridges \o "/" \o Fmt(Cfg(p).bridge_id), "put",
                   Some([description |-> Cfg(p).description,
                         interface_id |-> Cfg(p).interface_id,
                         vrf_id |-> Cfg(p).vrf_id,
                         v4_address |-> Cfg(p).v4_address,
                         v6_address |-> Cfg(p).v6_address]))
         ELSE IF p.subinterface /\ Cfg(p).bridge_id # None /\ Cfg(p).vlan_id # None
         THEN Plan(bridges \o "/" \o Fmt(Cfg(p).bridge_id) \o "/subinterfaces", "post",
                   Some([description |-> Cfg(p).description,
                         vrf_id |-> Cfg(p).vrf_id,
                         v4_address |-> Cfg(p).v4_address,
                         v6_address |-> Cfg(p).v6_address,
                         vlan_id |-> Cfg(p).vlan_id]))
         ELSE IF p.subinterface /\ Cfg(p).bridge_id # None
                 /\ Cfg(p).subinterface_id # None
         THEN Plan(bridges \o "/" \o Fmt(Cfg(p).bridge_id) \o "/subinterfaces/"
                       \o Fmt(Cfg(p).subinterface_id), "put",
                   Some([description |-> Cfg(p).description,
                         vrf_id |-> Cfg(p).vrf_id,
                         v4_address |-> Cfg(p).v4_address,
                         v6_address |-> Cfg(p).v6_address]))
         ELSE None
    ELSE IF p.state = "absent"
    THEN IF ~p.subinterface /\ Cfg(p).bridge_id # None
         THEN Plan(bridges \o "/" \o Fmt(Cfg(p).bridge_id), "delete", None)
         ELSE IF p.subinterface /\ Cfg(p).bridge_id # None
                 /\ Cfg(p).subinterface_id # None
         THEN Plan(bridges \o "/" \o Fmt(Cfg(p).bridge_id) \o "/subinterfaces/"
                       \o Fmt(Cfg(p).subinterface_id), "delete", None)
         ELSE None
    ELSE None

generate_url_physical(p) ==
    LET physicals == BaseUrl \o "interfaces/physicals" IN
    IF p.state = "query"
    THEN IF (~p.subinterface /\ p.config = None)
            \/ (~p.subinterface /\ Cfg(p).physical_id = None)
         THEN Plan(physicals, "get", None)
         ELSE IF ~p.subinterface /\ TruthyInt(Cfg(p).physical_id)
         THEN Plan(physicals \o "/" \o Fmt(Cfg(p).physical_id), "get", None)
         ELSE IF p.subinterface /\ TruthyInt(Cfg(p).physical_id)
                 /\ Cfg(p).subinterface_id = None
         THEN Plan(physicals \o "/" \o Fmt(Cfg(p).physical_id) \o "/subinterfaces", "get", None)
         ELSE IF p.subinterface /\ TruthyInt(Cfg(p).physical_id)
                 /\ TruthyInt(Cfg(p).subinterface_id)
         THEN Plan(physicals \o "/" \o Fmt(Cfg(p).physical_id) \o "/subinterfaces/"
                       \o Fmt(Cfg(p).subinterface_id), "get", None)
         ELSE None
    ELSE IF p.state = "present"
    THEN IF ~p.subinterface /\ Cfg(p).physical_id # None
         THEN Plan(physicals \o "/" \o Fmt(Cfg(p).physical_id), "put",
                   Some([description |-> Cfg(p).description,
                         v4_address |-> Cfg(p).v4_address,
                         v6_address |-> Cfg(p).v6_address,
                         vrf_id |-> Cfg(p).vrf_id,
                         bridge_id |-> Cfg(p).bridge_id,
                         mtu |-> Cfg(p).mtu]))
         ELSE IF p.subinterface /\ Cfg(p).physical_id # None /\ Cfg(p).vlan_id # None
         THEN Plan(physicals \o "/" \o Fmt(Cfg(p).physical_id) \o "/subinterfaces", "post",
                   Some([description |-> Cfg(p).description,
                         v4_address |-> Cfg(p).v4_address,
                         v6_address |-> Cfg(p).v6_address,
                         vrf_id |-> Cfg(p).vrf_id,
                         bridge_id |-> Cfg(p).bridge_id,
                         vlan_id |-> Cfg(p).vlan_id]))
         ELSE IF p.subinterface /\ Cfg(p).physical_id # None
                 /\ Cfg(p).subinterface_id # None
         THEN Plan(physicals \o "/" \o Fmt(Cfg(p).physical_id) \o "/subinterfaces/"
                       \o Fmt(Cfg(p).subinterface_id), "put",
                   Some([description |-> Cfg(p).description,
                         v4_address |-> Cfg(p).v4_address,
                         v6_address |-> Cfg(p).v6_address,
                         vrf_id |-> Cfg(p).vrf_id,
                         bridge_id |-> Cfg(p).bridge_id]))
         ELSE None
    ELSE IF p.state = "absent"
    THEN IF ~p.subinterface /\ Cfg(p).physical_id # None
         THEN Plan(physicals \o "/" \o Fmt(Cfg(p).physical_id), "delete",
                   Some([description |-> Cfg(p).description,
                         v4_address |-> Cfg(p).v4_address,
                         v6_address |-> Cfg(p).v6_address,
                         vrf_id |-> Cfg(p).vrf_id,
                         bridge_id |-> Cfg(p).bridge_id,
                         mtu |-> Cfg(p).mtu]))
         ELSE IF p.subinterface /\ Cfg(p).physical_id # None
                 /\ Cfg(p).subinterface_id # None
         THEN Plan(physicals \o "/" \o Fmt(Cfg(p).physical_id) \o "/subinterfaces/"
                       \o Fmt(Cfg(p).subinterface_id), "delete", None)
         ELSE None
    ELSE None

generate_url_dummy(p) ==
    LET dummies == BaseUrl \o "interfaces/dummies" IN
    IF p.state = "query"
    THEN IF p.config = None \/ (p.config # None /\ Cfg(p).dummy_id = None)
         THEN Plan(dummies, "get", None)
         ELSE IF Cfg(p).dummy_id # None
         THEN Plan(dummies \o "/" \o Fmt(Cfg(p).dummy_id), "get", None)
         ELSE None
    ELSE IF p.state = "present"
    THEN IF Cfg(p).name # None
         THEN Plan(dummies, "post",
                   Some([name |-> Cfg(p).name,
                         description |-> Cfg(p).description,
                         vrf_id |-> Cfg(p).vrf_id,
                         v4_address |-> Cfg(p).v4_address,
                         v6_address |-> Cfg(p).v6_address]))
         ELSE IF Cfg(p).dummy_id # None
         THEN Plan(dummies \o "/" \o Fmt(Cfg(p).dummy_id), "put",
                   Some([description |-> Cfg(p).description,
                         vrf_id |-> Cfg(p).vrf_id,
                         v4_address |-> Cfg(p).v4_address,
                         v6_address |-> Cfg(p).v6_address]))
         ELSE None
    ELSE IF p.state = "absent"
    THEN IF Cfg(p).dummy_id # None
         THEN Plan(dummies \o "/" \o Fmt(Cfg(p).dummy_id), "delete", None)
         ELSE None
    ELSE None

\* any(field is not None) over the four loopback fields.
LoopbackHasField(p) ==
    \/ Cfg(p).description # None
    \/ Cfg(p).vrf_id # None
    \/ Cfg(p).v4_address # None
    \/ Cfg(p).v6_address # None

generate_url_loopback(p) ==
    LET loopback == BaseUrl \o "interfaces/loopback"
        fields == [description |-> Cfg(p).description,
                   vrf_id |-> Cfg(p).vrf_id,
                   v4_address |-> Cfg(p).v4_address,
                   v6_address |-> Cfg(p).v6_address]
    IN
    IF p.state = "query"
    THEN Plan(loopback, "get", None)
    ELSE IF p.state = "present" /\ p.config # None /\ LoopbackHasField(p)
    THEN Plan(loopback, "put", Some(fields))
    ELSE IF p.state = "absent" /\ p.config # None /\ LoopbackHasField(p)
    THEN Plan(loopback, "delete", Some(fields))
    ELSE None

generate_url_vrf(p) ==
    LET vrfs == BaseUrl \o "vrfs" IN
    IF p.state = "query" /\ ~TruthyInt(p.vrf_id)
    THEN Plan(vrfs, "get", None)
    ELSE IF p.state = "query" /\ TruthyInt(p.vrf_id)
    THEN Plan(vrfs \o "/" \o Fmt(p.vrf_id), "get", None)
    ELSE IF p.state = "present" /\ TruthyStr(p.vrf_name) /\ TruthyInt(p.vrf_table_id)
    THEN Plan(vrfs, "post", Some([name |-> p.vrf_name, table |-> p.vrf_table_id]))
    ELSE IF p.state = "present" /\ TruthyInt(p.vrf_id) /\ TruthyInt(p.interface_id)
    THEN Plan(vrfs \o "/" \o Fmt(p.vrf_id), "put", Some([interface_id |-> p.interface_id]))
    ELSE IF p.state = "absent" /\ TruthyInt(p.vrf_id)
    THEN Plan(vrfs \o "/" \o Fmt(p.vrf_id), "delete", None)
    ELSE None

generate_url_interfaces(p) ==
    IF p.state = "query"
    THEN Plan(BaseUrl \o "interfaces", "get", None)
    ELSE None

\* Mutant of generate_url: every delete sends the config fields along.
generate_url_delete_payload(p) ==
    LET url_response ==
            IF p.kind = "bridge" THEN generate_url_bridge(p)
            ELSE IF p.kind = "physical" THEN generate_url_physical(p)
            ELSE IF p.kind = "dummy" THEN generate_url_dummy(p)
            ELSE IF p.kind = "loopback" THEN generate_url_loopback(p)
            ELSE IF p.kind = "vrf" THEN generate_url_vrf(p)
            ELSE generate_url_interfaces(p)
    IN IF url_response # None /\ url_response[1].http_method = "delete"
          /\ url_response[1].data = None
       THEN Plan(url_response[1].url, "delete", Some([description |-> None]))
       ELSE url_response

\* Mutant of generate_url: an update sends the name along as well.
generate_url_put_names(p) ==
    LET url_response ==
            IF p.kind = "bridge" THEN generate_url_bridge(p)
            ELSE IF p.kind = "physical" THEN generate_url_physical(p)
            ELSE IF p.kind = "dummy" THEN generate_url_dummy(p)
            ELSE IF p.kind = "loopback" THEN generate_url_loopback(p)
            ELSE IF p.kind = "vrf" THEN generate_url_vrf(p)
            ELSE generate_url_interfaces(p)
    IN IF url_response # None /\ url_response[1].http_method = "put"
          /\ p.kind \in {"bridge", "dummy"}
       THEN Plan(url_response[1].url, "put",
                 Some([name |-> Cfg(p).name, description |-> Cfg(p).description]))
       ELSE url_response

\* Mutant of generate_url: a plain physical present is sent as a creation.
generate_url_physical_creates(p) ==
    LET url_response ==
            IF p.kind = "bridge" THEN generate_url_bridge(p)
            ELSE IF p.kind = "physical" THEN generate_url_physical(p)
            ELSE IF p.kind = "dummy" THEN generate_url_dummy(p)
            ELSE IF p.kind = "loopback" THEN generate_url_loopback(p)
            ELSE IF p.kind = "vrf" THEN generate_url_vrf(p)
            ELSE generate_url_interfaces(p)
    IN IF url_response # None /\ p.kind = "physical" /\ ~p.subinterface
          /\ url_response[1].http_method = "put"
       THEN Plan(BaseUrl \o "interfaces/physicals", "post", url_response[1].data)
       ELSE url_response

generate_url(p) ==
    IF p.kind = "bridge" THEN generate_url_bridge(p)
    ELSE IF p.kind = "physical" THEN generate_url_physical(p)
    ELSE IF p.kind = "dummy" THEN generate_url_dummy(p)
    ELSE IF p.kind = "loopback" THEN generate_url_loopback(p)
    ELSE IF p.kind = "vrf" THEN generate_url_vrf(p)
    ELSE generate_url_interfaces(p)

---------------------------------------------------------------------------
(* module_utils/trafficjam.py and the result dict of run_module.          *)

\* The loop of parse_query_return: _result is rebound at every element, so
\* what is left after the loop is the comparison of the last one.  acc is
\* "unbound" until the first element has been seen.
RECURSIVE parse_query_loop(_, _, _, _)
parse_query_loop(items, key, value, acc) ==
    IF items = <<>>
    THEN acc
    ELSE parse_query_loop(Tail(items), key, value,
                          IF Head(items)[key] = value THEN "True" ELSE "False")

\* Mutant of parse_query_return: the comparison inverted (!= for ==).
parse_query_return_inverted(json_object, key, value) ==
    IF json_object.tag # "list"
    THEN "TypeError"
    ELSE IF json_object.items = <<>>
    THEN "UnboundLocalError"
    ELSE IF json_object.items[Len(json_object.items)][key] # value
    THEN "True"
    ELSE "False"

\* "True" / "False": the value returned; otherwise the exception raised:
\* iterating None (or indexing the keys of a non-list document) is a
\* TypeError, and "return _result" after an empty loop an UnboundLocalError.
parse_query_return(json_object, key, value) ==
    IF json_object.tag # "list"
    THEN "TypeError"
    ELSE LET r == parse_query_loop(json_object.items, key, value, "unbound")
         IN IF r = "unbound" THEN "UnboundLocalError" ELSE r

\* Mutant of process_response: the bounds of the range are left out.
process_response_exclusive(resp) == 200 < resp.status_code /\ resp.status_code < 299

process_response(resp) == 200 <= resp.status_code /\ resp.status_code <= 299

\* result = dict(changed=False, response='', status_code=''); the key
\* 'failed' is absent (None) until set, '' is None for status_code and the
\* body tagged "empty" for response.  msg, exit and exception record how
\* the invocation ended.
EmptyStr == [tag |-> "empty", items |-> <<>>]

InitialResult ==
    [changed |-> FALSE, failed |-> None, response |-> EmptyStr,
     status_code |-> None, msg |-> None, exit |-> "none", exception |-> None]

\* AnsibleModule.fail_json(msg, **kwargs): the returned document is kwargs
\* with failed forced to True and msg added; the process exits.
fail_json(msg, r) ==
    [r EXCEPT !.failed = Some(TRUE), !.msg = Some(msg), !.exit = "fail_json"]

\* AnsibleModule.exit_json(**kwargs): the document is kwargs as given.
exit_json(r) == [r EXCEPT !.exit = "exit_json"]

\* Mutant of Raise: the exception is caught and reported as a failure.
Raise_reported(exc, r) ==
    [r EXCEPT !.failed = Some(TRUE), !.msg = Some(exc), !.exception = Some(exc),
              !.exit = "fail_json"]

\* An exception nothing catches ends the invocation with a traceback.
Raise(exc, r) == [r EXCEPT !.exception = Some(exc), !.exit = "exception"]

\* The result run_module builds when scrub_params returned a message.
ValidationFailure(msg, r) ==
    fail_json(msg, [r EXCEPT !.changed = TRUE, !.failed = Some(FALSE)])

\* Mutant of DuplicateFailure: changed set as on the scrub_params path.
DuplicateFailure_changed(msg, body, status, r) ==
    [r EXCEPT !.changed = TRUE, !.failed = Some(TRUE), !.msg = Some(msg),
              !.exit = "fail_json", !.response = body, !.status_code = Some(status)]

\* Mutant of DuplicateFailure: the GET's body and status are not copied in.
DuplicateFailure_keeps_seed(msg, body, status, r) ==
    [r EXCEPT !.failed = Some(TRUE), !.msg = Some(msg), !.exit = "fail_json"]

\* The result of the guard's fail_json: the seeded result (changed False)
\* with the GET's body and status copied in.
DuplicateFailure(msg, body, status, r) ==
    fail_json(msg, [r EXCEPT !.response = body, !.status_code = Some(status)])

\* Mutant of AfterValidate: the failure is reported without ending the run.
AfterValidate_goes_on(errormsg) == "plan"

\* Where run_module stands after "if errormsg is not None: ... fail_json":
\* fail_json does not return.
AfterValidate(errormsg) == IF errormsg # None THEN "done" ELSE "plan"

\* Mutant of Interpreted: the query branch is missing, success is changed.
Interpreted_no_query_branch(p, resp, r) ==
    LET succeeded == 200 <= resp.status_code /\ resp.status_code <= 299
    IN [r EXCEPT !.changed = succeeded, !.failed = Some(~succeeded),
                 !.status_code = Some(resp.status_code),
                 !.response = resp.response, !.exit = "exit_json"]

\* Mutant of Interpreted: the failure branch reports changed as well.
Interpreted_failure_changed(p, resp, r) ==
    LET succeeded == 200 <= resp.status_code /\ resp.status_code <= 299
    IN [r EXCEPT !.changed = (~succeeded \/ p.state # "query"),
                 !.failed = Some(~succeeded),
                 !.status_code = Some(resp.status_code),
                 !.response = resp.response, !.exit = "exit_json"]

\* Mutant of Interpreted: a failed operation's body is not passed on.
Interpreted_failure_hides_body(p, resp, r) ==
    LET succeeded == 200 <= resp.status_code /\ resp.status_code <= 299
    IN [r EXCEPT !.changed = succeeded /\ p.state # "query",
                 !.failed = Some(~succeeded),
                 !.status_code = Some(resp.status_code),
                 !.response = IF succeeded THEN resp.response ELSE r.response,
                 !.exit = "exit_json"]

\* "Manage States Returned to Ansible" and the exit_json that follows.
\* The interfaces module has two branches only (its state is always query).
Interpreted(p, resp, r) ==
    LET succeeded == process_response(resp)
        flags == IF p.kind = "interfaces"
                 THEN IF succeeded
                      THEN [r EXCEPT !.changed = FALSE, !.failed = Some(FALSE)]
                      ELSE [r EXCEPT !.changed = FALSE, !.failed = Some(TRUE)]
                 ELSE IF succeeded /\ p.state = "query"
                 THEN [r EXCEPT !.changed = FALSE, !.failed = Some(FALSE)]
                 ELSE IF succeeded
                 THEN [r EXCEPT !.changed = TRUE, !.failed = Some(FALSE)]
                 ELSE [r EXCEPT !.changed = FALSE, !.failed = Some(TRUE)]
    IN exit_json([flags EXCEPT !.status_code = Some(resp.status_code),
                               !.response = resp.response])

\* Mutant of query_url: the guard asks for the list of all interfaces.
query_url_all_interfaces(p) == Some(BaseUrl \o "interfaces")

\* The URL of the guard's GET; None where the code leaves query_url unbound.
query_url(p) ==
    IF p.kind = "bridge"
    THEN IF ~p.subinterface
         THEN Some(BaseUrl \o "interfaces/bridges")
         ELSE IF p.subinterface /\ p.config # None /\ Cfg(p).bridge_id # None
         THEN Some(BaseUrl \o "interfaces/bridges/" \o Fmt(Cfg(p).bridge_id) \o "/subinterfaces")
         ELSE None
    ELSE IF p.kind = "physical"
    THEN IF p.subinterface /\ p.config # None /\ Cfg(p).physical_id # None
         THEN Some(BaseUrl \o "interfaces/physicals/" \o Fmt(Cfg(p).physical_id) \o "/subinterfaces")
         ELSE None
    ELSE IF p.kind = "dummy"
    THEN Some(BaseUrl \o "interfaces/dummies")
    ELSE Some(BaseUrl \o "vrfs")

\* What the guard makes of the GET's body: "pass" (go on to the POST),
\* "exists" (fail_json), or the exception raised.  bridge, physical and
\* dummy scan only a truthy body; vrf scans whatever came back.
GuardScan(verdict) ==
    IF verdict = "True" THEN "exists"
    ELSE IF verdict = "False" THEN "pass"
    ELSE verdict

existence_guard(p, body) ==
    IF p.kind = "bridge"
    THEN IF TruthyBody(body)
         THEN IF ~p.subinterface
              THEN GuardScan(parse_query_return(body, "name", Cfg(p).name))
              ELSE IF p.subinterface /\ Cfg(p).bridge_id # None
              THEN GuardScan(parse_query_return(body, "vlan_id", Cfg(p).vlan_id))
              ELSE "pass"
         ELSE "pass"
    ELSE IF p.kind = "physical"
    THEN IF TruthyBody(body)
         THEN IF p.subinterface /\ Cfg(p).physical_id # None
              THEN GuardScan(parse_query_return(body, "vlan_id", Cfg(p).vlan_id))
              ELSE "pass"
         ELSE "pass"
    ELSE IF p.kind = "dummy"
    THEN IF TruthyBody(body)
         THEN GuardScan(parse_query_return(body, "name", Cfg(p).name))
         ELSE "pass"
    ELSE GuardScan(parse_query_return(body, "name", p.vrf_name))

\* The msg of the guard's fail_json.
ExistsMsg(p) ==
    IF p.kind = "bridge"
    THEN IF ~p.subinterface THEN "bridge interface already exists"
                            ELSE "bridge subinterface already exists"
    ELSE IF p.kind = "physical" THEN "physical subinterface already exists"
    ELSE IF p.kind = "dummy" THEN "dummy interface already exists"
    ELSE "vrf already exists"

---------------------------------------------------------------------------
(* The inputs: the descriptors an invocation may be started with, and     *)
(* what the transport may return.                                          *)

Names == {"a", "b"}
OptNames == {None, Some("")} \cup {Some(n) : n \in Names}
\* Identifier values; 0 is the one Python takes for false.
Ids == {0, 1}
OptIds == {None} \cup {Some(n) : n \in Ids}
OptOne == {None, Some(1)}
OptText == {None, Some("text")}

\* A config dict as AnsibleModule hands it over: every option of the
\* module's config_spec is a key, None where the caller gave none.  The
\* keys a module's config_spec does not declare stay None here and are
\* never read by that module's code.
NoConfig ==
    [name |-> None, description |-> None, v4_address |-> None,
     v6_address |-> None, vrf_id |-> None, interface_id |-> None,
     subinterface_id |-> None, bridge_id |-> None, vlan_id |-> None,
     physical_id |-> None, dummy_id |-> None, mtu |-> None]

BridgeConfigs ==
    {[NoConfig EXCEPT !.name = n, !.bridge_id = b, !.vlan_id = v,
                      !.interface_id = f, !.subinterface_id = s,
                      !.description = d] :
        n \in OptNames, b \in OptIds, v \in OptIds, f \in OptOne,
        s \in OptIds, d \in OptText}

PhysicalConfigs ==
    {[NoConfig EXCEPT !.physical_id = ph, !.vlan_id = v, !.subinterface_id = s,
                      !.description = d, !.mtu = m] :
        ph \in OptIds, v \in OptIds, s \in OptIds, d \in OptText, m \in OptOne}

DummyConfigs ==
    {[NoConfig EXCEPT !.name = n, !.dummy_id = y, !.description = d] :
        n \in OptNames, y \in OptIds, d \in OptText}

LoopbackConfigs ==
    {[NoConfig EXCEPT !.description = d, !.vrf_id = r, !.v4_address = a4,
                      !.v6_address = a6] :
        d \in OptText, r \in OptOne, a4 \in OptText, a6 \in OptText}

Params(kind, state, sub, config) ==
    [kind |-> kind, state |-> state, subinterface |-> sub, config |-> config,
     vrf_name |-> None, vrf_id |-> None, vrf_table_id |-> None,
     interface_id |-> None]

ConfigDescriptors(kind, configs) ==
    {Params(kind, st, sub, c) :
        st \in States, sub \in BOOLEAN, c \in {None} \cup {Some(x) : x \in configs}}

VrfDescriptors ==
    {[Params("vrf", st, FALSE, None) EXCEPT !.vrf_name = n, !.vrf_id = v,
                                            !.vrf_table_id = t, !.interface_id = f] :
        st \in States, n \in OptNames, v \in OptIds, t \in OptIds, f \in OptIds}

\* The vrf creation of the module's documentation: a name no entry of the
\* modelled collections has.
TestVrf ==
    [Params("vrf", "present", FALSE, None) EXCEPT !.vrf_name = Some("testvrf"),
                                                    !.vrf_table_id = Some(111)]

\* Every descriptor the argument parser can hand to a module.
Descriptors ==
    ConfigDescriptors("bridge", BridgeConfigs)
    \cup ConfigDescriptors("physical", PhysicalConfigs)
    \cup ConfigDescriptors("dummy", DummyConfigs)
    \cup ConfigDescriptors("loopback", LoopbackConfigs)
    \cup VrfDescriptors
    \cup {Params("interfaces", "query", FALSE, None)}
    \cup {TestVrf}

\* Present-by-name descriptors: the creations the guard is there for.
CreateDescriptors ==
    {Params(k, "present", FALSE, Some([NoConfig EXCEPT !.name = Some(n)])) :
        k \in {"bridge", "dummy"}, n \in Names}
    \cup {Params(k, "present", TRUE,
                 Some([NoConfig EXCEPT !.bridge_id = IF k = "bridge" THEN Some(1) ELSE None,
                                       !.physical_id = IF k = "physical" THEN Some(1) ELSE None,
                                       !.vlan_id = Some(1)])) :
        k \in {"bridge", "physical"}}
    \cup {[Params("vrf", "present", FALSE, None) EXCEPT !.vrf_name = Some(n),
                                                        !.vrf_table_id = Some(1)] :
        n \in Names}

StatusCodes == {199, 200, 201, 299, 300, 404, 500}

\* An object of a collection; the guard reads its name or its vlan_id.
Entry(n, v) == [name |-> n, vlan_id |-> v]
Entries == {Entry(Some("a"), Some(1)), Entry(Some("b"), Some(2))}

RECURSIVE SeqsUpTo(_, _)
SeqsUpTo(S, n) ==
    IF n = 0 THEN {<<>>}
    ELSE LET shorter == SeqsUpTo(S, n - 1)
         IN shorter \cup {Append(s, e) : s \in {t \in shorter : Len(t) = n - 1}, e \in S}

\* What a GET on a collection may decode to when the service is shared with
\* other clients: nothing decodable, or any list of entries.
AnyCollectionBodies == {NullBody} \cup {ListBody(s) : s \in SeqsUpTo(Entries, MaxColl)}

\* The body of the response to the operation itself.
OperationBodies == {NullBody, ObjectBody}

\* The status of the guard's GET, which the code copies and never reads.
QueryStatusCodes == {200, 500}

---------------------------------------------------------------------------
(* The remote service, as far as the modules can see it: the collections  *)
(* a POST adds to and the guard's GET reads.                               *)

CollectionUrls ==
    {BaseUrl \o "interfaces/bridges", BaseUrl \o "interfaces/dummies", BaseUrl \o "vrfs"}
    \cup {BaseUrl \o "interfaces/bridges/" \o ToString(n) \o "/subinterfaces" : n \in Ids}
    \cup {BaseUrl \o "interfaces/physicals/" \o ToString(n) \o "/subinterfaces" : n \in Ids}

\* The entry a successful POST leaves in the collection.
EntryOf(data) ==
    Entry(IF "name" \in DOMAIN data THEN data.name ELSE None,
          IF "vlan_id" \in DOMAIN data THEN data.vlan_id ELSE None)

\* The service records a creation when it answers a POST with 2xx.
RemoteApply(rem, pl, status) ==
    IF pl.http_method = "post" /\ 200 <= status /\ status <= 299
       /\ pl.url \in DOMAIN rem
    THEN [rem EXCEPT ![pl.url] = Append(@, EntryOf(pl.data[1]))]
    ELSE rem

\* What a GET on a collection returns: the recorded collection, or, when
\* the service is shared with clients outside the model, any collection.
GetBodies(url, shared) ==
    IF shared THEN AnyCollectionBodies ELSE {ListBody(remote[url])}

---------------------------------------------------------------------------
(* The invocations. *)

Inv == {1, 2}

NoParams == Params("none", "query", FALSE, None)

Init ==
    /\ pc = [i \in Inv |-> "idle"]
    /\ params = [i \in Inv |-> NoParams]
    /\ plan = [i \in Inv |-> None]
    /\ response = [i \in Inv |-> None]
    /\ query_response = [i \in Inv |-> None]
    /\ result = [i \in Inv |-> InitialResult]
    /\ calls = [i \in Inv |-> <<>>]
    /\ remote = [u \in CollectionUrls |-> <<>>]
    /\ invocations = 0

\* The request make_request puts on the wire: requests.get sends no
\* payload, the other methods send it as params.
WireRequest(method, url, payload) ==
    [method |-> method, url |-> url,
     payload |-> IF method = "get" THEN None ELSE payload]

\* A module is invoked with descriptor d \in D.
Start(i, D) ==
    /\ pc[i] = "idle"
    /\ \E d \in D : params' = [params EXCEPT ![i] = d]
    /\ pc' = [pc EXCEPT ![i] = "validate"]
    /\ invocations' = invocations + 1
    /\ UNCHANGED <<plan, response, query_response, result, calls, remote>>

\* AnsibleModule(...) checks the argument specification, then run_module
\* calls scrub_params and fails on a message.
Validate(i) ==
    /\ pc[i] = "validate"
    /\ LET p == params[i]
           a == argspec(p)
           errormsg == scrub_params(p)
       IN IF a # None
          THEN /\ result' = [result EXCEPT ![i] = fail_json(a[1], InitialResult)]
               /\ pc' = [pc EXCEPT ![i] = AfterValidate(a)]
          ELSE /\ result' = [result EXCEPT ![i] =
                                IF errormsg # None
                                THEN ValidationFailure(errormsg[1], result[i])
                                ELSE result[i]]
               /\ pc' = [pc EXCEPT ![i] = AfterValidate(errormsg)]
    /\ UNCHANGED <<params, plan, response, query_response, calls, remote, invocations>>

\* url_response = generate_url(module.params); subscripting None raises
\* TypeError; a POST plan goes to the guard, any other to the request.
GenerateUrl(i) ==
    /\ pc[i] = "plan"
    /\ LET url_response == generate_url(params[i])
       IN /\ plan' = [plan EXCEPT ![i] = url_response]
          /\ IF url_response = None
             THEN /\ result' = [result EXCEPT ![i] = Raise("TypeError", result[i])]
                  /\ pc' = [pc EXCEPT ![i] = "crashed"]
             ELSE /\ pc' = [pc EXCEPT ![i] =
                               IF url_response[1].http_method = "post"
                               THEN "guard" ELSE "request"]
                  /\ UNCHANGED result
    /\ UNCHANGED <<params, response, query_response, calls, remote, invocations>>

\* The guard: GET the collection, scan it, fail_json on a match.
ExistenceCheck(i, shared) ==
    /\ pc[i] = "guard"
    /\ LET p == params[i]
           qurl == query_url(p)
       IN IF qurl = None
          THEN /\ result' = [result EXCEPT ![i] = Raise("UnboundLocalError", result[i])]
               /\ pc' = [pc EXCEPT ![i] = "crashed"]
               /\ UNCHANGED <<query_response, calls>>
          ELSE /\ calls' = [calls EXCEPT ![i] =
                               Append(@, WireRequest("get", qurl[1], plan[i][1].data))]
               /\ \/ \E status \in QueryStatusCodes, body \in GetBodies(qurl[1], shared) :
                       LET verdict == existence_guard(p, body)
                       IN /\ query_response' = [query_response EXCEPT ![i] =
                                 Some([response |-> body, status_code |-> status])]
                          /\ IF verdict = "pass"
                             THEN /\ pc' = [pc EXCEPT ![i] = "request"]
                                  /\ UNCHANGED result
                             ELSE IF verdict = "exists"
                             THEN /\ result' = [result EXCEPT ![i] =
                                        DuplicateFailure(ExistsMsg(p), body, status, result[i])]
                                  /\ pc' = [pc EXCEPT ![i] = "done"]
                             ELSE /\ result' = [result EXCEPT ![i] = Raise(verdict, result[i])]
                                  /\ pc' = [pc EXCEPT ![i] = "crashed"]
                  \/ \* requests raises (timeout, connection refused)
                     /\ result' = [result EXCEPT ![i] = Raise("RequestException", result[i])]
                     /\ pc' = [pc EXCEPT ![i] = "crashed"]
                     /\ UNCHANGED query_response
    /\ UNCHANGED <<params, plan, response, remote, invocations>>

\* Mutant of Execute: a status outside 200..299 makes it ask again.
Execute_retrying(i) ==
    /\ pc[i] = "request"
    /\ LET pl == plan[i][1]
       IN /\ calls' = [calls EXCEPT ![i] =
                          Append(@, WireRequest(pl.http_method, pl.url, pl.data))]
          /\ \E status \in StatusCodes, body \in OperationBodies :
                  /\ response' = [response EXCEPT ![i] =
                         Some([response |-> body, status_code |-> status])]
                  /\ remote' = RemoteApply(remote, pl, status)
                  /\ pc' = [pc EXCEPT ![i] =
                               IF (200 <= status /\ status <= 299) \/ Len(calls[i]) >= 3
                               THEN "interpret" ELSE "request"]
                  /\ UNCHANGED result
    /\ UNCHANGED <<params, plan, query_response, invocations>>

\* response = make_request(http_method, url, payload, timeout)
Execute(i) ==
    /\ pc[i] = "request"
    /\ LET pl == plan[i][1]
       IN /\ calls' = [calls EXCEPT ![i] =
                          Append(@, WireRequest(pl.http_method, pl.url, pl.data))]
          /\ \/ \E status \in StatusCodes, body \in OperationBodies :
                  /\ response' = [response EXCEPT ![i] =
                         Some([response |-> body, status_code |-> status])]
                  /\ remote' = RemoteApply(remote, pl, status)
                  /\ pc' = [pc EXCEPT ![i] = "interpret"]
                  /\ UNCHANGED result
             \/ /\ result' = [result EXCEPT ![i] = Raise("RequestException", result[i])]
                /\ pc' = [pc EXCEPT ![i] = "crashed"]
                /\ UNCHANGED <<response, remote>>
    /\ UNCHANGED <<params, plan, query_response, invocations>>

\* process_response, the changed/failed flags, exit_json.
Interpret(i) ==
    /\ pc[i] = "interpret"
    /\ result' = [result EXCEPT ![i] = Interpreted(params[i], response[i][1], result[i])]
    /\ pc' = [pc EXCEPT ![i] = "done"]
    /\ UNCHANGED <<params, plan, response, query_response, calls, remote, invocations>>

\* The process has ended; the next invocation starts from nothing.
Return(i) ==
    /\ pc[i] \in {"done", "crashed"}
    /\ invocations < MaxInvocations
    /\ pc' = [pc EXCEPT ![i] = "idle"]
    /\ params' = [params EXCEPT ![i] = NoParams]
    /\ plan' = [plan EXCEPT ![i] = None]
    /\ response' = [response EXCEPT ![i] = None]
    /\ query_response' = [query_response EXCEPT ![i] = None]
    /\ result' = [result EXCEPT ![i] = InitialResult]
    /\ calls' = [calls EXCEPT ![i] = <<>>]
    /\ UNCHANGED <<remote, invocations>>

\* One invocation of any module, with any descriptor, against a service
\* that other clients use too.
Next ==
    \/ Start(1, Descriptors)
    \/ Validate(1)
    \/ GenerateUrl(1)
    \/ ExistenceCheck(1, TRUE)
    \/ Execute(1)
    \/ Interpret(1)

Spec == Init /\ [][Next]_vars

\* Creations run one after the other against a service nobody else uses.
NextSeq ==
    \/ Start(1, CreateDescriptors)
    \/ Validate(1)
    \/ GenerateUrl(1)
    \/ ExistenceCheck(1, FALSE)
    \/ Execute(1)
    \/ Interpret(1)
    \/ Return(1)

SpecSeq == Init /\ [][NextSeq]_vars

\* Two creations interleaved at the transport calls.
NextRace ==
    \E i \in Inv :
        \/ Start(i, CreateDescriptors)
        \/ Validate(i)
        \/ GenerateUrl(i)
        \/ ExistenceCheck(i, FALSE)
        \/ Execute(i)
        \/ Interpret(i)

SpecRace == Init /\ [][NextRace]_vars

---------------------------------------------------------------------------
(* Vocabulary of the properties. *)

\* The field the guard compares and the value being created.
DiscKey(p) ==
    IF p.kind \in {"bridge", "physical"} /\ p.subinterface THEN "vlan_id" ELSE "name"

DiscValue(p) ==
    IF p.kind = "vrf" THEN p.vrf_name
    ELSE IF DiscKey(p) = "vlan_id" THEN Cfg(p).vlan_id
    ELSE Cfg(p).name

\* Some object of the collection has key = value.
Contains(body, key, value) ==
    /\ body.tag = "list"
    /\ \E k \in 1..Len(body.items) : body.items[k][key] = value

NonEmptyList(body) == body.tag = "list" /\ Len(body.items) > 0
EmptyOrNull(body) == body = NullBody \/ body = ListBody(<<>>)

\* The guard's GET of invocation i has returned.
GuardRan(i) == query_response[i] # None
Fetched(i) == query_response[i][1].response

\* The guard of invocation i fetched a collection holding what i creates.
GuardSawMatch(i) ==
    GuardRan(i) /\ Contains(Fetched(i), DiscKey(params[i]), DiscValue(params[i]))

Issued(i, method) == \E k \in 1..Len(calls[i]) : calls[i][k].method = method
PostIssued(i) == Issued(i, "post")

Failed(i) == result[i].failed = Some(TRUE)
Changed(i) == result[i].changed
\* fail_json or exit_json has produced the invocation's outcome.
HasOutcome(i) == result[i].exit \in {"fail_json", "exit_json"}
\* scrub_params rejected the descriptor of invocation i and run_module has
\* acted on it.
Validated(p) == argspec(p) = None /\ scrub_params(p) = None
ScrubRejected(i) ==
    /\ pc[i] \notin {"idle", "validate"}
    /\ argspec(params[i]) = None
    /\ scrub_params(params[i]) # None
ValidationRejected(i) ==
    /\ pc[i] \notin {"idle", "validate"}
    /\ ~Validated(params[i])
ValidationMsg(p) == IF argspec(p) # None THEN argspec(p) ELSE scrub_params(p)
\* The guard ended invocation i with "... already exists".
GuardAborted(i) ==
    /\ GuardRan(i)
    /\ result[i].exit = "fail_json"
    /\ result[i].msg = Some(ExistsMsg(params[i]))

---------------------------------------------------------------------------
(* The claims. *)

\* C1 (as stated): whenever the guard's GET has fetched a collection that
\* holds an entry whose discriminating field equals the value being created,
\* at any position, the invocation has ended as failed and no POST has been
\* issued.
C1_GuardMatchBlocksPost ==
    \A i \in Inv :
        GuardSawMatch(i) => pc[i] = "done" /\ Failed(i) /\ ~PostIssued(i)

\* C2 (as stated): on every non-empty collection the guard fetched,
\* parse_query_return returns True exactly when some object of the
\* collection has the discriminator key equal to the value.
C2_CheckExistsIffSomeMatch ==
    \A i \in Inv :
        (GuardRan(i) /\ NonEmptyList(Fetched(i))) =>
            ((parse_query_return(Fetched(i), DiscKey(params[i]), DiscValue(params[i])) = "True")
                <=> Contains(Fetched(i), DiscKey(params[i]), DiscValue(params[i])))

\* C3 (as stated): for every kind with a guard, when the guard's GET
\* returned an empty collection or a null body, the guard raised nothing
\* and did not fail the invocation, which went on to the POST.
C3_EmptyOrNullMeansAbsent ==
    \A i \in Inv :
        (GuardRan(i) /\ EmptyOrNull(Fetched(i))) =>
            /\ result[i].exception \in {None, Some("RequestException")}
            /\ result[i].exit # "fail_json"
            /\ pc[i] \in {"request", "interpret", "done", "crashed"}
            /\ (pc[i] \in {"interpret", "done"} => PostIssued(i))

\* C4 (as stated): with creations run one after the other against a
\* service that records them, no invocation issues a POST for a name (or
\* vlan_id) that was in the collection when its guard read it.
C4_SequentialCreationIdempotent ==
    \A i \in Inv : PostIssued(i) => ~GuardSawMatch(i)

\* C5: check and creation are not atomic.  Two creations of the same key
\* can both have issued the POST (the witness), and whenever they have,
\* it is because each guard read the collection before the other's entry
\* was in it: neither fetched a collection holding the key.
SameKey(i, j) ==
    /\ params[i].kind = params[j].kind
    /\ plan[i] # None /\ plan[j] # None
    /\ plan[i][1].url = plan[j][1].url
    /\ DiscValue(params[i]) = DiscValue(params[j])

BothPosted(i, j) == i # j /\ PostIssued(i) /\ PostIssued(j) /\ SameKey(i, j)

C5_RaceWindow ==
    \A i, j \in Inv :
        BothPosted(i, j) =>
            /\ GuardRan(i) /\ GuardRan(j)
            /\ ~GuardSawMatch(i) /\ ~GuardSawMatch(j)

C5_Witness ==
    /\ BothPosted(1, 2)
    /\ pc[1] = "done" /\ pc[2] = "done"
    /\ Len(remote[plan[1][1].url]) = 2

\* C6 (as stated): every descriptor validation accepts gets a plan, so
\* the invocation reaches the transport call.
C6_ValidatedDescriptorHasPlan ==
    \A i \in Inv :
        (pc[i] \notin {"idle", "validate", "plan"} /\ Validated(params[i])) =>
            /\ plan[i] # None
            /\ result[i].exception # Some("TypeError")

C9_GuardAbortChanged ==
    \A i \in Inv : GuardAborted(i) => (Failed(i) /\ Changed(i))

\* C9 (amended): the outcome of a guard abort has failed = true and
\* changed = false, unlike the validation abort path.
C9_GuardAbortNotChanged ==
    \A i \in Inv : GuardAborted(i) => (Failed(i) /\ ~Changed(i))

C9_Witness ==
    /\ GuardAborted(1) /\ pc[1] = "done"
    /\ GuardSawMatch(1)

\* C10: when validation rejects the descriptor, the invocation has ended
\* failed with the validation message and has put no request on the wire,
\* neither the guard's GET nor the operation.
C10_ValidationFailureNoTransport ==
    \A i \in Inv :
        ValidationRejected(i) =>
            /\ pc[i] = "done"
            /\ Failed(i)
            /\ result[i].msg = ValidationMsg(params[i])
            /\ calls[i] = <<>>
            /\ query_response[i] = None /\ response[i] = None

C10_Witness ==
    /\ ValidationRejected(1)
    /\ params[1].kind = "bridge" /\ params[1].state = "present"
    /\ result[1].msg = Some("parameter name is mutually exclusive with bridge_id")

\* The status code and body make_request returned for the operation.
OperationStatus(i) == response[i][1].status_code
OperationBody(i) == response[i][1].response
\* Invocation i ended by interpreting the operation's transport result.
InterpretedOutcome(i) == pc[i] = "done" /\ response[i] # None

\* C11: a transport result is a success exactly when its status code is
\* in 200..299 (200, 201 and 299 succeed; 199, 300, 404 and 500 fail); on
\* success changed = (state is not query) and failed = false.
C11_StatusClassification ==
    /\ \A sc \in StatusCodes :
          process_response([status_code |-> sc]) <=> sc \in {200, 201, 299}
    /\ \A i \in Inv :
          InterpretedOutcome(i) =>
            /\ (result[i].failed = Some(FALSE)) <=> (OperationStatus(i) \in 200..299)
            /\ (OperationStatus(i) \in {200, 201, 299} =>
                   /\ result[i].failed = Some(FALSE)
                   /\ Changed(i) = (params[i].state # "query"))
            /\ (OperationStatus(i) \in {199, 300, 404, 500} => Failed(i))

C11_Witness ==
    /\ InterpretedOutcome(1) /\ OperationStatus(1) = 299
    /\ params[1].state = "present"
    /\ Changed(1) /\ result[1].failed = Some(FALSE)

\* C12: when the operation's status code is outside 200..299 the outcome
\* has failed = true and changed = false and carries the status code and
\* the body the transport returned for the operation, whatever the kind
\* and the state.
C12_RemoteErrorVerbatim ==
    \A i \in Inv :
        (InterpretedOutcome(i) /\ OperationStatus(i) \notin 200..299) =>
            /\ Failed(i) /\ ~Changed(i)
            /\ result[i].exit = "exit_json"
            /\ result[i].status_code = Some(OperationStatus(i))
            /\ result[i].response = OperationBody(i)

C12_Witness ==
    /\ InterpretedOutcome(1) /\ OperationStatus(1) = 404
    /\ params[1].kind = "loopback" /\ params[1].state = "absent"
    /\ Failed(1) /\ ~Changed(1)
    /\ result[1].status_code = Some(404) /\ result[1].response = ObjectBody

\* generate_url has been called for invocation i (validation let it by).
PlannerRan(i) ==
    /\ pc[i] \in {"guard", "request", "interpret", "done", "crashed"}
    /\ Validated(params[i])

\* The descriptor carries an identifier together with the whole key a
\* creation is made from.
HasIdAndKey(p) ==
    IF p.kind = "vrf"
    THEN p.vrf_id # None /\ p.vrf_name # None /\ p.vrf_table_id # None
    ELSE IF p.kind = "bridge" /\ p.config # None
    THEN Cfg(p).bridge_id # None /\ Cfg(p).name # None
    ELSE IF p.kind = "dummy" /\ p.config # None
    THEN Cfg(p).dummy_id # None /\ Cfg(p).name # None
    ELSE FALSE

\* C13 (as stated): a validated Present descriptor that carries both an
\* identifier and a complete creation key (for vrf: vrf_id with vrf_name
\* and vrf_table_id) is planned as a PUT on the instance path, not as a
\* POST to the collection.
C13_IdentifierTakesPrecedence ==
    \A i \in Inv :
        (PlannerRan(i) /\ params[i].state = "present" /\ HasIdAndKey(params[i])
           /\ plan[i] # None) =>
            /\ plan[i][1].http_method = "put"
            /\ (params[i].kind = "vrf" =>
                   plan[i][1].url = BaseUrl \o "vrfs/" \o Fmt(params[i].vrf_id))

\* The parent identifier of a subinterface descriptor and the path of the
\* parent's child collection.
ParentId(p) == IF p.kind = "bridge" THEN Cfg(p).bridge_id ELSE Cfg(p).physical_id
SubinterfacesUrl(p) ==
    BaseUrl \o (IF p.kind = "bridge" THEN "interfaces/bridges/" ELSE "interfaces/physicals/")
            \o Fmt(ParentId(p)) \o "/subinterfaces"

\* C14 (as stated): for bridge and physical, a subinterface query with
\* the parent identifier alone is a GET on {parent}/subinterfaces, and one
\* with the parent identifier and subinterface_id is a GET on
\* {parent}/subinterfaces/{subinterface_id}.
C14_SubinterfaceQueryPaths ==
    \A i \in Inv :
        LET p == params[i]
        IN (PlannerRan(i) /\ p.kind \in {"bridge", "physical"} /\ p.state = "query"
              /\ p.subinterface /\ p.config # None /\ TruthyInt(ParentId(p))) =>
             /\ (Cfg(p).subinterface_id = None =>
                    plan[i] = Plan(SubinterfacesUrl(p), "get", None))
             /\ (TruthyInt(Cfg(p).subinterface_id) =>
                    plan[i] = Plan(SubinterfacesUrl(p) \o "/" \o Fmt(Cfg(p).subinterface_id),
                                   "get", None))

\* Two fields bridge scrub_params holds to be mutually exclusive are both
\* given, and the messages it has for that.
BridgeExclusivePair(p) ==
    /\ p.kind = "bridge" /\ p.config # None
    /\ \/ Cfg(p).name # None /\ Cfg(p).bridge_id # None
       \/ Cfg(p).name # None /\ Cfg(p).vlan_id # None
       \/ Cfg(p).interface_id # None /\ Cfg(p).vlan_id # None
       \/ Cfg(p).interface_id # None /\ Cfg(p).subinterface_id # None
       \/ Cfg(p).vlan_id # None /\ Cfg(p).subinterface_id # None

MutuallyExclusiveMsgs ==
    {"parameter name is mutually exclusive with bridge_id",
     "parameter name is mutually exclusive with vlan_id",
     "parameter interface_id is mutually exclusive with vlan_id",
     "parameter interface_id is mutually exclusive with subinterface_id",
     "parameter vlan_id is mutually exclusive with subinterface_id"}

MissingSubinterfaceMsgs ==
    {"missing parameter(s) required by 'subinterface': bridge_id|vlan_id or bridge_id|subinterface_id",
     "missing parameter(s) required by 'subinterface': physical_id|vlan_id or physical_id|subinterface_id"}

\* A subinterface Present descriptor of bridge or physical in which no
\* field of another rule (name, interface_id) is given.
SubinterfacePresent(p) ==
    /\ p.kind \in {"bridge", "physical"} /\ p.subinterface /\ p.state = "present"
    /\ (p.config # None /\ p.kind = "bridge") =>
          (Cfg(p).name = None /\ Cfg(p).interface_id = None)

\* C16 (as stated): for bridge and physical with subinterface = true and
\* state present, validation accepts exactly when the parent identifier
\* is non-null and exactly one of vlan_id and subinterface_id is non-null
\* (0 counts as non-null); with neither, the error is "missing
\* parameter(s) ...".
C16_SubinterfacePresentRule ==
    \A i \in Inv :
        LET p == params[i]
        IN (pc[i] \notin {"idle", "validate"} /\ SubinterfacePresent(p)) =>
             /\ Validated(p) <=>
                   /\ p.config # None
                   /\ ParentId(p) # None
                   /\ (Cfg(p).vlan_id # None) # (Cfg(p).subinterface_id # None)
             /\ (p.config # None /\ Cfg(p).vlan_id = None /\ Cfg(p).subinterface_id = None) =>
                   \E m \in MissingSubinterfaceMsgs : result[i].msg = Some(m)

\* C17 (as stated): vrf, present, vrf_name "testvrf", vrf_table_id 111,
\* and a vrf collection with no entry named "testvrf" (the empty one
\* included): the invocation issues POST .../api/vrfs with {name:
\* "testvrf", table: 111}, and status 201 gives changed = true, failed =
\* false.
C17_CreateTestVrf ==
    \A i \in Inv :
        (params[i] = TestVrf /\ GuardRan(i) /\ Fetched(i).tag = "list"
           /\ ~Contains(Fetched(i), "name", Some("testvrf"))) =>
            /\ result[i].exception \notin {Some("TypeError"), Some("UnboundLocalError")}
            /\ (pc[i] \in {"interpret", "done", "crashed"} =>
                   /\ Len(calls[i]) = 2
                   /\ calls[i][2] = WireRequest("post", BaseUrl \o "vrfs",
                                        Some([name |-> Some("testvrf"), table |-> Some(111)])))
            /\ ((pc[i] = "done" /\ OperationStatus(i) = 201) =>
                   (Changed(i) /\ result[i].failed = Some(FALSE)))

\* C18 (as stated): every loopback descriptor is planned on the singleton
\* path .../api/interfaces/loopback: GET with no payload for query, PUT
\* for present, DELETE for absent, also when every field of the config
\* is null.
C18_LoopbackSingletonPlan ==
    \A i \in Inv :
        (PlannerRan(i) /\ params[i].kind = "loopback") =>
            /\ plan[i] # None
            /\ plan[i][1].url = BaseUrl \o "interfaces/loopback"
            /\ plan[i][1].http_method =
                  (IF params[i].state = "query" THEN "get"
                   ELSE IF params[i].state = "present" THEN "put" ELSE "delete")
            /\ (params[i].state = "query" => plan[i][1].data = None)

\* C19: in every plan the planner produces, a GET has no payload, a
\* DELETE has none unless it is the absent plan of loopback or of a
\* non-subinterface physical interface, and POST and PUT (and those two
\* DELETE shapes) are the plans that carry one.
DeleteWithBody(p) ==
    p.state = "absent" /\ (p.kind = "loopback" \/ (p.kind = "physical" /\ ~p.subinterface))

C19_PayloadByMethod ==
    \A i \in Inv :
        plan[i] # None =>
            LET pl == plan[i][1]
            IN /\ (pl.http_method = "get" => pl.data = None)
               /\ (pl.http_method = "delete" =>
                      ((pl.data # None) <=> DeleteWithBody(params[i])))
               /\ (pl.http_method \in {"post", "put"} => pl.data # None)
               /\ (pl.data # None =>
                      (pl.http_method \in {"post", "put"} \/ DeleteWithBody(params[i])))

C19_Witness ==
    /\ pc[1] = "done" /\ plan[1] # None
    /\ params[1].kind = "physical" /\ ~params[1].subinterface
    /\ plan[1][1].http_method = "delete" /\ plan[1][1].data # None
    /\ calls[1][1].payload # None

\* The requests of invocation i that are its planned operation, and those
\* that are its guard's GET.
OperationCalls(i) ==
    {k \in 1..Len(calls[i]) :
        plan[i] # None
        /\ calls[i][k] = WireRequest(plan[i][1].http_method, plan[i][1].url, plan[i][1].data)}
GuardCalls(i) ==
    {k \in 1..Len(calls[i]) :
        /\ plan[i] # None /\ plan[i][1].http_method = "post"
        /\ calls[i][k].method = "get"}

\* C20: nothing is retried.  Within an invocation the planned operation
\* is requested at most once and the guard's GET at most once, so there
\* are at most two transport calls, every call is one of the two, and an
\* outcome that reports failure has no request after the one that failed.
C20_NoRetry ==
    \A i \in Inv :
        /\ Len(calls[i]) <= 2
        /\ Cardinality(OperationCalls(i)) <= 1
        /\ Cardinality(GuardCalls(i)) <= 1
        /\ OperationCalls(i) \cup GuardCalls(i) = 1..Len(calls[i])
        /\ (HasOutcome(i) /\ Failed(i) /\ response[i] # None) =>
              calls[i][Len(calls[i])] =
                  WireRequest(plan[i][1].http_method, plan[i][1].url, plan[i][1].data)

C20_Witness ==
    /\ pc[1] = "done" /\ Failed(1) /\ response[1] # None
    /\ OperationStatus(1) = 500
    /\ Len(calls[1]) = 2
    /\ GuardCalls(1) = {1} /\ OperationCalls(1) = {2}

\* The identifier of a bridge or dummy descriptor, the collection path of
\* its kind, and the fields a creation sends.
OwnId(p) == IF p.kind = "bridge" THEN Cfg(p).bridge_id ELSE Cfg(p).dummy_id
CollectionUrl(p) ==
    BaseUrl \o (IF p.kind = "bridge" THEN "interfaces/bridges" ELSE "interfaces/dummies")
CreatableFields(p) ==
    IF p.kind = "bridge"
    THEN {"name", "description", "interface_id", "vrf_id", "v4_address", "v6_address"}
    ELSE {"name", "description", "vrf_id", "v4_address", "v6_address"}

\* What C21 says of the plan pl made for descriptor p.
PresentPlanRule(p, pl) ==
    /\ (Cfg(p).name # None =>
          /\ pl # None
          /\ pl[1].http_method = "post" /\ pl[1].url = CollectionUrl(p)
          /\ pl[1].data # None
          /\ DOMAIN pl[1].data[1] = CreatableFields(p)
          /\ \A f \in CreatableFields(p) : pl[1].data[1][f] = Cfg(p)[f])
    /\ ((Cfg(p).name = None /\ OwnId(p) # None) =>
          /\ pl # None
          /\ pl[1].http_method = "put"
          /\ pl[1].url = CollectionUrl(p) \o "/" \o Fmt(OwnId(p))
          /\ pl[1].data # None
          /\ DOMAIN pl[1].data[1] = CreatableFields(p) \ {"name"}
          /\ \A f \in DOMAIN pl[1].data[1] : pl[1].data[1][f] = Cfg(p)[f])

PlainPresent(p) ==
    p.kind \in {"bridge", "dummy"} /\ ~p.subinterface /\ p.state = "present"
    /\ p.config # None

\* generate_url keeps the rule on every such descriptor.
PlainPresentPlanned ==
    \A d \in Descriptors : PlainPresent(d) => PresentPlanRule(d, generate_url(d))

\* C21: for bridge and dummy, non-subinterface, present: a non-null name
\* gives POST on the collection path with name and the creatable fields;
\* a null name with a non-null identifier gives PUT on the instance path
\* with a payload that has neither name nor the identifier.  Stated of
\* generate_url over every such descriptor, and of the plan of every
\* invocation that reached the planner.
C21_PresentPostOrPut ==
    /\ PlainPresentPlanned
    /\ \A i \in Inv :
          (PlannerRan(i) /\ PlainPresent(params[i])) =>
              PresentPlanRule(params[i], plan[i])

C21_Witness ==
    /\ pc[1] = "done" /\ PlainPresent(params[1]) /\ PlannerRan(1)
    /\ params[1].kind = "bridge"
    /\ Cfg(params[1]).name = None /\ Cfg(params[1]).bridge_id = Some(0)
    /\ plan[1] # None /\ plan[1][1].http_method = "put"
    /\ calls[1][1].url = BaseUrl \o "interfaces/bridges/0"

\* The descriptor names the instance to delete, and the path of that
\* instance (loopback is the one resource of its path).
HasInstance(p) ==
    IF p.kind = "loopback" THEN TRUE
    ELSE IF p.kind = "vrf" THEN p.vrf_id # None
    ELSE IF p.kind = "dummy" THEN p.config # None /\ Cfg(p).dummy_id # None
    ELSE IF p.kind \in {"bridge", "physical"}
    THEN /\ p.config # None /\ ParentId(p) # None
         /\ (p.subinterface => Cfg(p).subinterface_id # None)
    ELSE FALSE

InstanceUrl(p) ==
    IF p.kind = "loopback" THEN BaseUrl \o "interfaces/loopback"
    ELSE IF p.kind = "vrf" THEN BaseUrl \o "vrfs/" \o Fmt(p.vrf_id)
    ELSE IF p.kind = "dummy" THEN BaseUrl \o "interfaces/dummies/" \o Fmt(Cfg(p).dummy_id)
    ELSE IF p.subinterface
    THEN SubinterfacesUrl(p) \o "/" \o Fmt(Cfg(p).subinterface_id)
    ELSE BaseUrl \o (IF p.kind = "bridge" THEN "interfaces/bridges/" ELSE "interfaces/physicals/")
                 \o Fmt(ParentId(p))

\* The plan generate_url makes of the same fields when the state is present.
PresentPlanOf(p) == generate_url([p EXCEPT !.state = "present"])

\* C22 (as stated): for every kind an absent descriptor is planned as
\* DELETE on the instance path (the singleton path for loopback), and for
\* loopback and non-subinterface physical the DELETE's payload is the
\* payload of the present plan of the same fields.
C22_AbsentIsDelete ==
    \A i \in Inv :
        LET p == params[i]
        IN (PlannerRan(i) /\ p.state = "absent" /\ HasInstance(p)) =>
             /\ plan[i] # None
             /\ plan[i][1].http_method = "delete"
             /\ plan[i][1].url = InstanceUrl(p)
             /\ (DeleteWithBody(p) =>
                    /\ PresentPlanOf(p) # None
                    /\ plan[i][1].data = PresentPlanOf(p)[1].data)

\* C23: the order of the pipeline.  The guard's GET is issued exactly for
\* a POST plan, before the POST and on the POST's collection path; a plan
\* of any other method goes from planning to its one transport call; and
\* a result is interpreted only after the operation's call has returned.
C23_PipelineOrder ==
    \A i \in Inv :
        /\ (pc[i] = "guard" => (plan[i] # None /\ plan[i][1].http_method = "post"))
        /\ (calls[i] # <<>> => plan[i] # None)
        /\ (plan[i] # None /\ plan[i][1].http_method = "post") =>
              /\ (pc[i] = "request" => Len(calls[i]) = 1)
              /\ (calls[i] # <<>> =>
                    calls[i][1] = WireRequest("get", plan[i][1].url, None))
              /\ (Len(calls[i]) > 1 =>
                    /\ query_response[i] # None
                    /\ calls[i][2] = WireRequest("post", plan[i][1].url, plan[i][1].data))
        /\ (plan[i] # None /\ plan[i][1].http_method # "post") =>
              /\ query_response[i] = None
              /\ (pc[i] = "request" => calls[i] = <<>>)
              /\ (calls[i] # <<>> =>
                    calls[i] = <<WireRequest(plan[i][1].http_method, plan[i][1].url,
                                             plan[i][1].data)>>)
        /\ (pc[i] = "interpret" \/ result[i].exit = "exit_json") =>
              /\ response[i] # None
              /\ OperationCalls(i) = {Len(calls[i])}

C23_Witness ==
    /\ pc[1] = "done" /\ result[1].exit = "exit_json"
    /\ params[1].kind = "bridge" /\ params[1].subinterface
    /\ plan[1][1].http_method = "post"
    /\ Len(calls[1]) = 2
    /\ calls[1][1] = WireRequest("get", BaseUrl \o "interfaces/bridges/1/subinterfaces", None)
    /\ calls[1][2].method = "post" /\ calls[1][2].url = calls[1][1].url

\* A body that is one object of a collection.
EntryBody(e) == [tag |-> "object", items |-> <<e>>]

\* C24 (as stated): when the guard aborts on a duplicate, the response of
\* the failed outcome is the existing entry that matched.
C24_AbortCarriesEntry ==
    \A i \in Inv :
        GuardAborted(i) =>
            \E k \in 1..Len(Fetched(i).items) :
                /\ Fetched(i).items[k][DiscKey(params[i])] = DiscValue(params[i])
                /\ result[i].response = EntryBody(Fetched(i).items[k])

\* C24 (amended): when the guard aborts on a duplicate, the response of
\* the failed outcome is the whole body the guard's GET returned, a
\* collection in which a matching entry is found, and status_code is that
\* GET's status.
C24_AbortCarriesCollection ==
    \A i \in Inv :
        GuardAborted(i) =>
            /\ result[i].response = Fetched(i)
            /\ result[i].status_code = Some(query_response[i][1].status_code)
            /\ GuardSawMatch(i)

C24_Witness ==
    /\ GuardAborted(1) /\ pc[1] = "done"
    /\ params[1].kind = "dummy"
    /\ Len(Fetched(1).items) = 2
    /\ Fetched(1).items[1] # Fetched(1).items[2]
    /\ result[1].response = Fetched(1)

\* The identifier a plain query selects by, and the collection path of
\* the descriptor's kind.
QueryId(p) ==
    IF p.kind = "vrf" THEN p.vrf_id
    ELSE IF p.config = None THEN None
    ELSE IF p.kind = "dummy" THEN Cfg(p).dummy_id
    ELSE ParentId(p)

KindCollectionUrl(p) ==
    BaseUrl \o (IF p.kind = "bridge" THEN "interfaces/bridges"
                ELSE IF p.kind = "physical" THEN "interfaces/physicals"
                ELSE IF p.kind = "dummy" THEN "interfaces/dummies"
                ELSE "vrfs")

\* C25 (as stated): a query whose selecting identifier (bridge_id,
\* physical_id, dummy_id, vrf_id) is non-null is a GET on the instance
\* path, for every value of the identifier, 0 included; only a null
\* identifier (or no config) gives GET on the collection path.
C25_QueryByIdentifier ==
    \A i \in Inv :
        LET p == params[i]
        IN (PlannerRan(i) /\ p.state = "query" /\ ~p.subinterface
              /\ p.kind \in {"bridge", "physical", "dummy", "vrf"}) =>
             IF QueryId(p) = None
             THEN plan[i] = Plan(KindCollectionUrl(p), "get", None)
             ELSE plan[i] = Plan(KindCollectionUrl(p) \o "/" \o Fmt(QueryId(p)), "get", None)

\* C26 (as stated): a dummy descriptor with state absent and a config
\* whose dummy_id is null is rejected by validation with "missing
\* parameter(s) required: dummy_id", so it never reaches the planner.
C26_DummyAbsentNeedsId ==
    \A i \in Inv :
        LET p == params[i]
        IN (pc[i] \notin {"idle", "validate"} /\ p.kind = "dummy" /\ p.state = "absent"
              /\ p.config # None /\ Cfg(p).dummy_id = None) =>
             /\ pc[i] = "done" /\ Failed(i)
             /\ result[i].msg = Some("missing parameter(s) required: dummy_id")
             /\ ~PlannerRan(i)

\* The descriptor breaks a mutual-exclusion rule of its kind, and the
\* messages the kinds have for that.
ExclusivePair(p) ==
    IF p.kind = "vrf"
    THEN \/ p.vrf_name # None /\ p.interface_id # None
         \/ p.vrf_table_id # None /\ p.interface_id # None
    ELSE IF p.config = None THEN FALSE
    ELSE IF p.kind = "bridge" THEN BridgeExclusivePair(p)
    ELSE IF p.kind = "physical"
    THEN Cfg(p).subinterface_id # None /\ Cfg(p).vlan_id # None
    ELSE IF p.kind = "dummy"
    THEN Cfg(p).name # None /\ Cfg(p).dummy_id # None
    ELSE FALSE

ExclusiveMsgs ==
    MutuallyExclusiveMsgs
    \cup {"parameter subinterface_id is mutually exclusive with vlan_id",
          "parameter name is mutually exclusive with dummy_id",
          "parameters are mutually exclusive: vrf_name|interface_id",
          "parameters are mutually exclusive: vrf_table_id|interface_id"}

\* C27: validation reports one error, that of the first failing rule,
\* mutual-exclusion rules before required-field rules: a descriptor that
\* breaks both (bridge subinterface present with vlan_id and
\* subinterface_id set and bridge_id null) gets the mutual-exclusion
\* message.
C27_FirstFailingRule ==
    \A i \in Inv :
        ValidationRejected(i) =>
            /\ result[i].msg = ValidationMsg(params[i])
            /\ (ExclusivePair(params[i]) =>
                  \E m \in ExclusiveMsgs : result[i].msg = Some(m))
            /\ (~ExclusivePair(params[i]) =>
                  \A m \in ExclusiveMsgs : result[i].msg # Some(m))

C27_Witness ==
    /\ ValidationRejected(1) /\ pc[1] = "done"
    /\ params[1].kind = "bridge" /\ params[1].subinterface
    /\ params[1].state = "present" /\ params[1].config # None
    /\ Cfg(params[1]).bridge_id = None
    /\ Cfg(params[1]).vlan_id # None /\ Cfg(params[1]).subinterface_id # None
    /\ Cfg(params[1]).name = None /\ Cfg(params[1]).interface_id = None
    /\ result[1].msg = Some("parameter vlan_id is mutually exclusive with subinterface_id")

\* A transport call of invocation i raised.
TransportError(i) == result[i].exception = Some("RequestException")

\* C28: a transport error is fatal for the invocation.  On the guard's GET
\* it leaves the POST unissued; on either call the engine produces no
\* changed/failed outcome, and the call that raised is the last request.
C28_TransportErrorFatal ==
    \A i \in Inv :
        TransportError(i) =>
            /\ pc[i] = "crashed"
            /\ ~HasOutcome(i)
            /\ result[i].failed = None /\ ~Changed(i)
            /\ response[i] = None
            /\ (plan[i][1].http_method = "post" /\ query_response[i] = None) =>
                  /\ calls[i] = <<WireRequest("get", plan[i][1].url, None)>>
                  /\ ~PostIssued(i)
            /\ (plan[i][1].http_method # "post" \/ query_response[i] # None) =>
                  /\ OperationCalls(i) = {Len(calls[i])}
                  /\ Len(calls[i]) = (IF plan[i][1].http_method = "post" THEN 2 ELSE 1)

C28_Witness ==
    /\ TransportError(1) /\ pc[1] = "crashed"
    /\ plan[1] # None /\ plan[1][1].http_method = "post"
    /\ query_response[1] = None
    /\ Len(calls[1]) = 1 /\ calls[1][1].method = "get"

\* What C29 says of the plan pl that generate_url makes of a physical
\* descriptor p.
PhysicalPostRule(p, pl) ==
    /\ ((pl # None /\ pl[1].http_method = "post") =>
          /\ p.subinterface /\ Cfg(p).physical_id # None
          /\ query_url(p) = Some(pl[1].url))
    /\ ((p.state = "present" /\ ~p.subinterface /\ pl # None) =>
          pl[1].http_method = "put")

\* generate_url keeps the rule on every physical descriptor with a config.
PhysicalPlansKeepRule ==
    \A d \in Descriptors :
        (d.kind = "physical" /\ d.config # None) =>
            PhysicalPostRule(d, generate_url(d))

\* C29: for physical, a POST plan arises only with subinterface true and
\* physical_id non-null, so the guard's query URL (the parent's
\* subinterface collection) is defined whenever the guard runs; a
\* non-subinterface physical present is always a PUT and never triggers
\* the guard.
C29_PhysicalGuardUrlDefined ==
    /\ PhysicalPlansKeepRule
    /\ \A i \in Inv :
          (params[i].kind = "physical" /\ PlannerRan(i)) =>
              /\ PhysicalPostRule(params[i], plan[i])
              /\ result[i].exception # Some("UnboundLocalError")
              /\ ((pc[i] = "guard" \/ GuardCalls(i) # {}) =>
                    /\ params[i].subinterface
                    /\ query_url(params[i]) = Some(SubinterfacesUrl(params[i])))
              /\ ((params[i].state = "present" /\ ~params[i].subinterface) =>
                    /\ plan[i] # None /\ plan[i][1].http_method = "put"
                    /\ pc[i] # "guard" /\ query_response[i] = None
                    /\ ~Issued(i, "get"))

C29_Witness ==
    /\ params[1].kind = "physical" /\ PlannerRan(1) /\ pc[1] = "done"
    /\ params[1].state = "present" /\ ~params[1].subinterface
    /\ Cfg(params[1]).physical_id = Some(0) /\ Cfg(params[1]).vlan_id # None
    /\ plan[1][1].http_method = "put"
    /\ Len(calls[1]) = 1 /\ calls[1][1].method = "put"

\* Invocation i has ended: run_module returned through fail_json or
\* exit_json, or an exception took the process down.
Ended(i) == pc[i] \in {"done", "crashed"}

\* C30 (as stated): if every transport call returns, an invocation ends
\* with exactly one outcome, a failure report (validation or duplicate
\* abort) or an interpreted result, never none, whatever the kind and the
\* descriptor.  Every behaviour of an invocation is finite, so this is the
\* statement about its final state.
C30_EndsWithOneOutcome ==
    \A i \in Inv :
        (Ended(i) /\ ~TransportError(i)) =>
            /\ pc[i] = "done"
            /\ HasOutcome(i)
            /\ result[i].exception = None
            /\ (result[i].exit = "exit_json") <=> (response[i] # None)
            /\ (result[i].exit = "fail_json") <=>
                  (ValidationRejected(i) \/ GuardAborted(i))

============================================================================
